---- MODULE Spec2Model ----
(***************************************************************************)
(* A model of the caption backend: backend/caption_utils.py (audio         *)
(* chunking, cue timing, the subtitle file and its fallbacks) and          *)
(* backend/main.py (the HTTP handlers, the session directories and the     *)
(* expiry sweep).                                                          *)
(*                                                                         *)
(* Four specifications share the module:                                   *)
(*   SpecGen   one call of generate_subtitles, chunk by chunk;             *)
(*   SpecPath  how each endpoint turns (session id, file name) into the    *)
(*             path it touches;                                            *)
(*   Spec      the handlers, one request at a time, and the expiry sweep   *)
(*             on one session directory, one file operation per step;      *)
(*   SpecPair  the same with two requests in flight.                       *)
(*                                                                         *)
(* Times are exact rationals of milliseconds <<num, den>>.  The code uses  *)
(* binary floating point; its truncation int((secs % 1) * 1000) is         *)
(* monotone like the exact floor used here and can only come out one       *)
(* millisecond lower than the exact value.                                 *)
(***************************************************************************)
EXTENDS Integers, Sequences, FiniteSets, TLC

VARIABLES
    \* ---- generate_subtitles (SpecGen) ----
    audio_len,       \* len(audio): milliseconds of the loaded wav
    gpc,             \* position inside generate_subtitles
    ci,              \* 1-based position of the chunk loop in chunks
    subtitles,       \* the list `subtitles`
    subtitle_index,  \* the counter `subtitle_index`
    srt,             \* blocks of subtitles.srt, <<>> while unwritten/empty
    rec_log,         \* what the recognizer did for each chunk so far
    cue_chunk,       \* for each element of subtitles, the chunk it came from
    \* ---- path resolution (SpecPath) ----
    p_req,           \* the two requests under comparison
    \* ---- the service (Spec) ----
    dirs,            \* session directories that exist under temp/
    files,           \* file name -> content, inside the session directory
    expired,         \* TRUE when the directory's mtime is older than the TTL
    req,             \* per request slot: the handler's locals and position
    sweep,           \* the background job's position
    response,        \* the latest response sent, with what its request did
    started,         \* number of requests accepted so far
    uploads          \* number of uploads accepted so far

varsGen  == <<audio_len, gpc, ci, subtitles, subtitle_index, srt, rec_log, cue_chunk>>
varsPath == <<p_req>>
varsSvc  == <<dirs, files, expired, req, response, sweep, started, uploads>>
vars     == <<varsGen, varsPath, varsSvc>>

----------------------------------------------------------------------------
(* Bounds of the model.                                                    *)

MaxFullChunks == 2     \* full 3-second chunks of the audio
MaxWords      == 3     \* short texts: 0..MaxWords words
MaxBatches    == 2     \* long texts: up to MaxBatches full batches, and one word more
MaxIdLen      == 2     \* characters of a caller-supplied session id
MaxPathReqs   == 2     \* requests compared for isolation
MaxRequests   == 4     \* requests accepted in one run
MaxUploads    == 2     \* videos uploaded in one run
AudioChunks   == 1     \* 3-second chunks in every uploaded video's audio

(* Lengths of a final chunk shorter than 3 seconds (0: none). *)
TailLens == {0, 1, 7, 1500}

----------------------------------------------------------------------------
(* caption_utils.py: constants                                             *)

chunk_length_ms    == 3000
words_per_subtitle == 10

Min(a, b) == IF a <= b THEN a ELSE b

(* format_timestamp: seconds -> "HH:MM:SS,mmm", here <<HH, MM, SS, mmm>>.  *)
(* The argument is the rational t[1]/t[2] milliseconds.                    *)
format_timestamp(t) ==
    LET whole == t[1] \div t[2]
        hrs   == whole \div 3600000
        mins  == (whole % 3600000) \div 60000
        secs  == (whole % 60000) \div 1000
        millis == whole % 1000
    IN  <<hrs, mins, secs, millis>>

(* Reading a rendered timestamp back as milliseconds. *)
TsMs(ts) == ((ts[1] * 60 + ts[2]) * 60 + ts[3]) * 1000 + ts[4]

(* for i in range(0, len(audio), chunk_length_ms): (start, len(chunk))     *)
NumChunks(len) == (len + chunk_length_ms - 1) \div chunk_length_ms

ChunkStart(k) == (k - 1) * chunk_length_ms

ChunkLen(len, k) == Min(chunk_length_ms, len - ChunkStart(k))

(* Starts j of the word batches: range(0, len(words), words_per_subtitle). *)
BatchStarts(n) == { j \in 0..(n - 1) : j % words_per_subtitle = 0 }

BatchLen(n, j) == Min(words_per_subtitle, n - j)

(* batch_start = start_time + (j / len(words)) * chunk_duration *)
BatchStart(len, k, n, j) ==
    << ChunkStart(k) * n + j * ChunkLen(len, k), n >>

(* end_time = min(start_time + chunk_duration, total_duration) *)
EndTime(len, k) == Min(ChunkStart(k) + ChunkLen(len, k), len)

(* batch_end = min(start + ((j + len(batch)) / len(words)) * dur, end_time) *)
BatchEndFullBatch(len, k, n, j) ==
    << ChunkStart(k) * n + (j + words_per_subtitle) * ChunkLen(len, k), n >>

BatchEnd(len, k, n, j) ==
    LET raw == ChunkStart(k) * n + (j + BatchLen(n, j)) * ChunkLen(len, k)
        cap == EndTime(len, k) * n
    IN  << Min(raw, cap), n >>

(* The cue appended for the b-th batch (b = 0, 1, ...) of an n-word text,  *)
(* the counter standing at idx when the chunk's text arrived.              *)
CueWithIndexOfChunk(len, k, n, b, idx) ==
    [ index |-> k,
      start |-> format_timestamp(BatchStart(len, k, n, b * words_per_subtitle)),
      end   |-> format_timestamp(BatchEnd(len, k, n, b * words_per_subtitle)),
      text  |-> [ kind  |-> "words",
                  words |-> [ w \in 1..BatchLen(n, b * words_per_subtitle)
                                |-> b * words_per_subtitle + w ] ] ]

Cue(len, k, n, b, idx) ==
    [ index |-> idx + b,
      start |-> format_timestamp(BatchStart(len, k, n, b * words_per_subtitle)),
      end   |-> format_timestamp(BatchEnd(len, k, n, b * words_per_subtitle)),
      text  |-> [ kind  |-> "words",
                  words |-> [ w \in 1..BatchLen(n, b * words_per_subtitle)
                                |-> b * words_per_subtitle + w ] ] ]

(* All cues of one chunk whose recognized text has n words (n = 0: the     *)
(* text is blank and `if text.strip()` adds nothing).                      *)
ChunkCues(len, k, n, idx) ==
    [ b \in 1..Cardinality(BatchStarts(n)) |-> Cue(len, k, n, b - 1, idx) ]

(* The two placeholder blocks. *)
Zero == <<0, 0, 0, 0>>
Five == <<0, 0, 5, 0>>

DefaultCue ==
    [ index |-> 1, start |-> Zero, end |-> Five,
      text |-> [ kind |-> "No speech detected in video", words |-> <<>> ] ]

ErrorCue ==
    [ index |-> 1, start |-> Zero, end |-> Five,
      text |-> [ kind |-> "Error generating captions: ", words |-> <<>> ] ]

----------------------------------------------------------------------------
(* generate_subtitles, one step per chunk                                  *)

(* Numbers of words the recognizer returns for one chunk. *)
WordCounts ==
    (0..MaxWords) \cup
    { words_per_subtitle * b + r : b \in 1..MaxBatches, r \in 0..1 }

AudioLens ==
    { f * chunk_length_ms + t : f \in 0..MaxFullChunks, t \in TailLens }

InitGen ==
    /\ audio_len \in AudioLens
    /\ gpc = "load"
    /\ ci = 1
    /\ subtitles = <<>>
    /\ subtitle_index = 1
    /\ srt = <<>>
    /\ rec_log = <<>>
    /\ cue_chunk = <<>>
    /\ p_req = <<>>
    /\ dirs = {} /\ files = <<>> /\ expired = FALSE
    /\ req = <<>> /\ response = <<>> /\ sweep = [pc |-> "parked"]
    /\ started = 0 /\ uploads = 0

(* AudioSegment.from_wav succeeds: the chunk list is built. *)
G_Load ==
    /\ gpc = "load"
    /\ gpc' = "loop"
    /\ UNCHANGED <<varsPath, varsSvc, audio_len, ci, subtitles, subtitle_index, srt, rec_log, cue_chunk>>

(* AudioSegment.from_wav raises: straight to the outer except. *)
G_LoadFails ==
    /\ gpc = "load"
    /\ gpc' = "except"
    /\ rec_log' = Append(rec_log, "exception")
    /\ UNCHANGED <<varsPath, varsSvc, audio_len, ci, subtitles, subtitle_index, srt, cue_chunk>>

InLoop == gpc = "loop" /\ ci <= NumChunks(audio_len)

(* What a chunk whose recognition raised RequestError does to the loop. *)
RequestErrorAborts == "except"

OnRequestError == "loop"

(* recognize_google returns a text of n words. *)
G_ChunkText(n) ==
    /\ InLoop
    /\ LET new == ChunkCues(audio_len, ci, n, subtitle_index)
       IN  /\ subtitles' = subtitles \o new
           /\ subtitle_index' = subtitle_index + Len(new)
           /\ cue_chunk' = cue_chunk \o [ b \in 1..Len(new) |-> ci ]
    /\ rec_log' = Append(rec_log, IF n = 0 THEN "empty" ELSE "text")
    /\ ci' = ci + 1
    /\ UNCHANGED <<varsPath, varsSvc, audio_len, gpc, srt>>

(* except sr.UnknownValueError: pass *)
G_ChunkUnknown ==
    /\ InLoop
    /\ rec_log' = Append(rec_log, "unknown")
    /\ ci' = ci + 1
    /\ UNCHANGED <<varsPath, varsSvc, audio_len, gpc, subtitles, subtitle_index, srt, cue_chunk>>

(* except sr.RequestError as e: print(...) *)
G_ChunkRequestError ==
    /\ InLoop
    /\ rec_log' = Append(rec_log, "request_error")
    /\ gpc' = OnRequestError
    /\ ci' = ci + 1
    /\ UNCHANGED <<varsPath, varsSvc, audio_len, subtitles, subtitle_index, srt, cue_chunk>>

(* chunk.export, sr.AudioFile, record or unlink raise something else. *)
G_ChunkException ==
    /\ InLoop
    /\ rec_log' = Append(rec_log, "exception")
    /\ gpc' = "except"
    /\ UNCHANGED <<varsPath, varsSvc, audio_len, ci, subtitles, subtitle_index, srt, cue_chunk>>

(* with open(srt_path, "w") ...: one block per element of subtitles. *)
G_Write ==
    /\ gpc = "loop"
    /\ ci > NumChunks(audio_len)
    /\ srt' = subtitles
    /\ gpc' = "default"
    /\ UNCHANGED <<varsPath, varsSvc, audio_len, ci, subtitles, subtitle_index, rec_log, cue_chunk>>

(* The open or a write raises (disk full, directory gone). *)
G_WriteFails ==
    /\ gpc = "loop"
    /\ ci > NumChunks(audio_len)
    /\ rec_log' = Append(rec_log, "exception")
    /\ gpc' = "except"
    /\ UNCHANGED <<varsPath, varsSvc, audio_len, ci, subtitles, subtitle_index, srt, cue_chunk>>

(* if not subtitles: rewrite the file with the default block. *)
NoDefault(subs, file) == file

DefaultIfEmpty(subs, file) == IF subs = <<>> THEN <<DefaultCue>> ELSE file

G_Default ==
    /\ gpc = "default"
    /\ srt' = DefaultIfEmpty(subtitles, srt)
    /\ gpc' = "returned"
    /\ UNCHANGED <<varsPath, varsSvc, audio_len, ci, subtitles, subtitle_index, rec_log, cue_chunk>>

(* except Exception as e: the file becomes the error block. *)
G_Except ==
    /\ gpc = "except"
    /\ srt' = <<ErrorCue>>
    /\ gpc' = "returned"
    /\ UNCHANGED <<varsPath, varsSvc, audio_len, ci, subtitles, subtitle_index, rec_log, cue_chunk>>

NextGen ==
    \/ G_Load
    \/ G_LoadFails
    \/ \E n \in WordCounts : G_ChunkText(n)
    \/ G_ChunkUnknown
    \/ G_ChunkRequestError
    \/ G_ChunkException
    \/ G_Write
    \/ G_WriteFails
    \/ G_Default
    \/ G_Except

SpecGen == InitGen /\ [][NextGen]_vars

----------------------------------------------------------------------------
(* Properties of generate_subtitles                                        *)

Range(s) == { s[i] : i \in DOMAIN s }

Written == gpc \in {"default", "returned"}

(* C1: every cue written to subtitles.srt starts strictly before it ends,  *)
(* whatever the audio length and the recognized texts.                     *)
C1_StartBeforeEnd ==
    Written => \A k \in DOMAIN srt : TsMs(srt[k].start) < TsMs(srt[k].end)

C3_NeverEmpty ==
    gpc = "returned" =>
        /\ Len(srt) >= 1
        /\ (subtitles = <<>> /\ "exception" \notin Range(rec_log))
              => srt = <<DefaultCue>>

C3_Witness ==
    /\ gpc = "returned"
    /\ srt = <<DefaultCue>>
    /\ {"empty", "unknown", "request_error"} \subseteq Range(rec_log)

(* C7: the indices in subtitles.srt are 1, 2, ..., n in file order,        *)
(* whichever chunks were skipped.                                          *)
C7_ContiguousIndices ==
    Written => \A k \in DOMAIN srt : srt[k].index = k

C7_Witness ==
    /\ gpc = "returned"
    /\ Len(rec_log) = 3
    /\ rec_log[1] = "text"
    /\ rec_log[2] \in {"empty", "unknown", "request_error"}
    /\ rec_log[3] = "text"
    /\ Len(srt) >= 4

(* C8 as stated, for the documents written when nothing raised: starts    *)
(* are non-decreasing and no cue ends after the audio does.               *)
C8_OrderedWithinAudio ==
    (Written /\ "exception" \notin Range(rec_log)) =>
        /\ \A k \in 1..(Len(srt) - 1) :
              TsMs(srt[k].start) <= TsMs(srt[k + 1].start)
        /\ \A k \in DOMAIN srt : TsMs(srt[k].end) <= audio_len

(* C8: for the cues derived from chunks, starts are non-decreasing over    *)
(* the document, a cue ends no later than the next cue of the same chunk   *)
(* starts, and no cue ends after its chunk or after the audio; the         *)
(* placeholder cue ends at 5 s whatever the audio length.                  *)
C8_ChunkCuesOrdered ==
    (Written /\ srt = subtitles) =>
        /\ \A k \in 1..(Len(srt) - 1) :
              /\ TsMs(srt[k].start) <= TsMs(srt[k + 1].start)
              /\ cue_chunk[k] = cue_chunk[k + 1]
                    => TsMs(srt[k].end) <= TsMs(srt[k + 1].start)
        /\ \A k \in DOMAIN srt :
              /\ TsMs(srt[k].end)
                    <= ChunkStart(cue_chunk[k]) + ChunkLen(audio_len, cue_chunk[k])
              /\ TsMs(srt[k].end) <= audio_len

C8_Witness ==
    /\ gpc = "returned"
    /\ srt = subtitles
    /\ \E k \in 1..(Len(srt) - 2) :
          /\ cue_chunk[k] = cue_chunk[k + 1]
          /\ cue_chunk[k + 1] # cue_chunk[k + 2]
    /\ audio_len % chunk_length_ms # 0

----------------------------------------------------------------------------
(* main.py: from (session id, file name) to the path an endpoint touches   *)
(*                                                                         *)
(* A string is a sequence of characters; a path is a sequence of           *)
(* components, relative to the working directory unless it starts with     *)
(* the component Root.                                                     *)

IdChars == {"a", "/", "."}

SessionIds == UNION { [1..n -> IdChars] : n \in 1..MaxIdLen }

Root   == <<"/">>
DotDot == <<".", ".">>
Dot    == <<".">>

TEMP_DIR == << <<"temp">> >>

(* File names a caller may send (headers and query parameters are free     *)
(* text): a plain name, a climb into a sibling directory, a climb out of   *)
(* temp/, an absolute path.                                                *)
FileNames ==
    { << <<"v">> >>,
      << DotDot, <<"a">>, <<"v">> >>,
      << DotDot, DotDot, <<"v">> >>,
      << Root, <<"v">> >> }

(* pathlib's `/`: an absolute right operand replaces the left one; empty   *)
(* and "." components are dropped; ".." is kept.                           *)
PathJoin(base, name) ==
    LET kept == SelectSeq(name, LAMBDA c : c # <<>> /\ c # Dot)
    IN  IF name # <<>> /\ name[1] = Root THEN kept ELSE base \o kept

(* The file the operating system reaches through a path: ".." leaves the   *)
(* directory reached so far (at the root it stays there).                  *)
RECURSIVE Resolve(_, _)
Resolve(done, rest) ==
    IF rest = <<>> THEN done
    ELSE IF rest[1] = DotDot
         THEN IF done = <<>> \/ done[Len(done)] = DotDot
                 THEN Resolve(Append(done, DotDot), Tail(rest))
              ELSE IF done = <<Root>> THEN Resolve(done, Tail(rest))
              ELSE Resolve(SubSeq(done, 1, Len(done) - 1), Tail(rest))
         ELSE Resolve(Append(done, rest[1]), Tail(rest))

(* safe_id = session_id.replace("/", "") *)
SafeId(session_id) == SelectSeq(session_id, LAMBDA c : c # "/")

(* get_session_dir: TEMP_DIR / safe_id, created if missing *)
get_session_dir(session_id) == PathJoin(TEMP_DIR, << SafeId(session_id) >>)

SessionFile(session_id, name) ==
    Resolve(<<>>, PathJoin(get_session_dir(session_id), name))

AUDIO   == << <<"audio.wav">> >>
CHUNK   == << <<"chunk_temp.wav">> >>
SRTFILE == << <<"subtitles.srt">> >>
UPLOADED == << <<"v">> >>

(* Files written by the requests recorded so far. *)
PathWritten == UNION { p_req[i].writes : i \in DOMAIN p_req }

PathRecord(kind, sid, reads, writes, outcome) ==
    [ kind |-> kind, sid |-> sid,
      dir |-> Resolve(<<>>, get_session_dir(sid)),
      reads |-> reads, writes |-> writes, outcome |-> outcome ]

InitPath ==
    /\ p_req = <<>>
    /\ audio_len = 0 /\ gpc = "parked" /\ ci = 1 /\ subtitles = <<>>
    /\ subtitle_index = 1 /\ srt = <<>> /\ rec_log = <<>> /\ cue_chunk = <<>>
    /\ dirs = {} /\ files = <<>> /\ expired = FALSE
    /\ req = <<>> /\ response = <<>> /\ sweep = [pc |-> "parked"]
    /\ started = 0 /\ uploads = 0

MoreRequests == Len(p_req) < MaxPathReqs

(* upload_video: saved_path = session_folder / f"{uuid}{ext}" *)
P_Upload(sid) ==
    /\ MoreRequests
    /\ p_req' = Append(p_req,
          PathRecord("upload", sid, {}, {SessionFile(sid, UPLOADED)}, "ok"))
    /\ UNCHANGED <<varsGen, varsSvc>>

(* gneerate_captions: video_path = session_folder / video_filename; the    *)
(* audio, chunk and subtitle files go to session_folder.                   *)
P_GenerateCaptions(sid, name) ==
    /\ MoreRequests
    /\ LET video == SessionFile(sid, name)
       IN  p_req' = Append(p_req,
              IF video \in PathWritten
              THEN PathRecord("captions", sid, {video},
                      { SessionFile(sid, AUDIO), SessionFile(sid, CHUNK),
                        SessionFile(sid, SRTFILE) }, "ok")
              ELSE PathRecord("captions", sid, {}, {}, "404"))
    /\ UNCHANGED <<varsGen, varsSvc>>

(* generate_captioned_video: video_path and subtitle_path are looked up    *)
(* under session_folder; the burn call then raises (see S_Burn).           *)
P_GenerateVideo(sid, name, sub) ==
    /\ MoreRequests
    /\ LET video == SessionFile(sid, name)
           subt  == SessionFile(sid, sub)
       IN  p_req' = Append(p_req,
              IF video \in PathWritten /\ subt \in PathWritten
              THEN PathRecord("video", sid, {}, {}, "500")
              ELSE PathRecord("video", sid, {}, {}, "404"))
    /\ UNCHANGED <<varsGen, varsSvc>>

(* download_video: FileResponse(session_folder / filename) *)
P_Download(sid, name) ==
    /\ MoreRequests
    /\ LET path == SessionFile(sid, name)
       IN  p_req' = Append(p_req,
              IF path \in PathWritten
              THEN PathRecord("download", sid, {path}, {}, "ok")
              ELSE PathRecord("download", sid, {}, {}, "404"))
    /\ UNCHANGED <<varsGen, varsSvc>>

NextPath ==
    \/ \E sid \in SessionIds : P_Upload(sid)
    \/ \E sid \in SessionIds, name \in FileNames : P_GenerateCaptions(sid, name)
    \/ \E sid \in SessionIds, name \in FileNames, sub \in FileNames \cup {SRTFILE} :
          P_GenerateVideo(sid, name, sub)
    \/ \E sid \in SessionIds, name \in FileNames : P_Download(sid, name)

SpecPath == InitPath /\ [][NextPath]_vars

----------------------------------------------------------------------------
(* Properties of path resolution                                           *)

IsPrefix(a, b) == Len(a) <= Len(b) /\ SubSeq(b, 1, Len(a)) = a

StrictlyInside(path, dir) == IsPrefix(dir, path) /\ Len(path) > Len(dir)

(* C6: every endpoint touches only files inside its own session's          *)
(* directory, which lies inside temp/; two different session ids never     *)
(* share a directory or nest, and no request reads or writes a file that   *)
(* a request under another session id wrote.                               *)
C6_SessionIsolation ==
    /\ \A i \in DOMAIN p_req :
          /\ StrictlyInside(p_req[i].dir, TEMP_DIR)
          /\ \A f \in p_req[i].reads \cup p_req[i].writes :
                StrictlyInside(f, p_req[i].dir)
    /\ \A i, j \in DOMAIN p_req :
          p_req[i].sid # p_req[j].sid =>
              /\ ~IsPrefix(p_req[i].dir, p_req[j].dir)
              /\ (p_req[i].reads \cup p_req[i].writes) \cap p_req[j].writes = {}

----------------------------------------------------------------------------
(* main.py and caption_utils.py on one session directory, one file         *)
(* operation per step.  A video is named by the number of its upload (the  *)
(* uuid); a file derived from a video carries that number, so that a cue   *)
(* records the video whose audio it was recognized from.                   *)

S == "s1"

(* Two requests in flight at once. *)
Slots == {1, 2}

NoFiles ==
    [ videos |-> {}, audio |-> 0, chunk |-> <<>>,
      srt |-> [exists |-> FALSE, blocks |-> <<>>], final |-> 0 ]

(* Directory entries, as iterdir/scandir list them. *)
Entries(f) ==
    { <<"video", v>> : v \in f.videos }
      \cup (IF f.audio # 0 THEN {<<"audio.wav", 0>>} ELSE {})
      \cup (IF f.chunk # <<>> THEN {<<"chunk_temp.wav", 0>>} ELSE {})
      \cup (IF f.srt.exists THEN {<<"subtitles.srt", 0>>} ELSE {})
      \cup (IF f.final # 0 THEN {<<"final_captioned_video.mp4", 0>>} ELSE {})

Unlink(f, e) ==
    IF e[1] = "video" THEN [f EXCEPT !.videos = @ \ {e[2]}]
    ELSE IF e[1] = "audio.wav" THEN [f EXCEPT !.audio = 0]
    ELSE IF e[1] = "chunk_temp.wav" THEN [f EXCEPT !.chunk = <<>>]
    ELSE IF e[1] = "subtitles.srt" THEN [f EXCEPT !.srt = NoFiles.srt]
    ELSE [f EXCEPT !.final = 0]

IdleReq ==
    [ kind |-> "none", pc |-> "idle", video |-> 0, target |-> <<"none", 0>>,
      audio |-> 0, ci |-> 0, subs |-> <<>>, preview |-> <<>>,
      outcome |-> "none", trail |-> {} ]

Init ==
    /\ dirs = {}
    /\ files = NoFiles
    /\ expired = FALSE
    /\ req = [r \in Slots |-> IdleReq]
    /\ response = IdleReq
    /\ sweep = [pc |-> "idle", listed |-> {}]
    /\ started = 0
    /\ uploads = 0
    /\ p_req = <<>>
    /\ audio_len = 0 /\ gpc = "parked" /\ ci = 1 /\ subtitles = <<>>
    /\ subtitle_index = 1 /\ srt = <<>> /\ rec_log = <<>> /\ cue_chunk = <<>>

Others == UNCHANGED <<varsGen, varsPath>>

(* A request is taken by the first worker that is not busy. *)
Busy(r) == req[r].pc # "idle"

Free(r) ==
    /\ ~Busy(r)
    /\ \A q \in Slots : q < r => Busy(q)
    /\ started < MaxRequests

Begin(r, kind, pc) ==
    [IdleReq EXCEPT !.kind = kind, !.pc = pc]

(* The response; the handler's other locals are gone. *)
Finish(rec, outcome) ==
    [rec EXCEPT !.pc = "done", !.outcome = outcome,
                !.target = IdleReq.target, !.audio = 0, !.ci = 0, !.subs = <<>>]

DirExists == S \in dirs

(* get_session_dir: session_path.mkdir(exist_ok=True).  A directory that  *)
(* is created gets a fresh modification time; one that exists keeps its.   *)
Mkdir ==
    /\ dirs' = dirs \cup {S}
    /\ expired' = (DirExists /\ expired)

(* Creating or removing an entry updates the directory's mtime; rewriting  *)
(* an existing file does not.                                              *)
Touched(f, g) == IF Entries(f) # Entries(g) THEN FALSE ELSE expired

Seen(rec, mark) == [rec EXCEPT !.trail = @ \cup {mark}]

Gone(rec) == IF DirExists THEN rec ELSE Seen(rec, "dir_gone")

(* The handler moves on; when it is done the response goes out and the   *)
(* worker is free again.                                                   *)
SetReq(r, rec) ==
    IF rec.pc = "done"
    THEN req' = [req EXCEPT ![r] = IdleReq] /\ response' = rec
    ELSE req' = [req EXCEPT ![r] = rec] /\ UNCHANGED response

(* A write into the session directory. *)
SetFiles(f) == files' = f /\ expired' = Touched(files, f) /\ UNCHANGED dirs

NoFileChange == UNCHANGED <<dirs, files, expired>>

VideoNames == 1..MaxUploads

SubtitleNames == { <<"subtitles.srt", 0>>, <<"missing.srt", 0>> }

DownloadNames ==
    { <<"video", v>> : v \in VideoNames } \cup
    { <<"subtitles.srt", 0>>, <<"final_captioned_video.mp4", 0>> }

(* ---- upload_video ---- *)

(* content_type does not start with "video/": HTTPException(400) *)
S_UploadRejected(r) ==
    /\ Free(r)
    /\ started' = started + 1
    /\ SetReq(r, Finish(Begin(r, "upload", "done"), "400"))
    /\ NoFileChange
    /\ UNCHANGED <<sweep, uploads>> /\ Others

(* get_session_dir, then the uuid names the file to save *)
S_UploadStart(r) ==
    /\ Free(r)
    /\ uploads < MaxUploads
    /\ started' = started + 1
    /\ uploads' = uploads + 1
    /\ Mkdir
    /\ SetReq(r, [Begin(r, "upload", "save") EXCEPT !.video = uploads + 1])
    /\ UNCHANGED <<files, sweep>> /\ Others

(* with open(saved_path, "wb"): write the chunks, return ok *)
S_UploadSave(r) ==
    /\ req[r].pc = "save"
    /\ IF DirExists
       THEN /\ SetFiles([files EXCEPT !.videos = @ \cup {req[r].video}])
            /\ SetReq(r, Finish(req[r], "ok"))
       ELSE /\ NoFileChange
            /\ SetReq(r, Finish(Gone(req[r]), "500"))
    /\ UNCHANGED <<sweep, started, uploads>> /\ Others

(* ---- gneerate_captions ---- *)

(* get_session_dir; if not video_path.exists(): 404 *)
S_CaptionsStart(r, v) ==
    /\ Free(r)
    /\ started' = started + 1
    /\ Mkdir
    /\ SetReq(r, IF v \in files.videos
                 THEN [Begin(r, "captions", "extract") EXCEPT !.video = v]
                 ELSE Finish(Begin(r, "captions", "done"), "404"))
    /\ UNCHANGED <<files, sweep, uploads>> /\ Others

(* extract_audio raises ffmpeg.Error and nothing in the handler catches it *)
ExtractErrorSwallowed(rec) == [Seen(rec, "extract_failed") EXCEPT !.pc = "load"]

OnExtractError(rec) == Finish(Seen(rec, "extract_failed"), "500")

(* extract_audio: ffmpeg reads the video and writes audio.wav *)
S_Extract(r) ==
    /\ req[r].pc = "extract"
    /\ IF DirExists /\ req[r].video \in files.videos
       THEN /\ SetFiles([files EXCEPT !.audio = req[r].video])
            /\ SetReq(r, [req[r] EXCEPT !.pc = "load"])
       ELSE /\ NoFileChange
            /\ SetReq(r, OnExtractError(Gone(req[r])))
    /\ UNCHANGED <<sweep, started, uploads>> /\ Others

(* ffmpeg fails on the video itself (no audio stream, corrupt input) *)
S_ExtractFails(r) ==
    /\ req[r].pc = "extract"
    /\ DirExists /\ req[r].video \in files.videos
    /\ SetReq(r, OnExtractError(req[r]))
    /\ NoFileChange
    /\ UNCHANGED <<sweep, started, uploads>> /\ Others

(* generate_subtitles: AudioSegment.from_wav(audio_path) and the split *)
S_LoadAudio(r) ==
    /\ req[r].pc = "load"
    /\ SetReq(r, LET rec == Seen(req[r], "generate_subtitles")
                 IN  IF files.audio # 0
                     THEN [rec EXCEPT !.audio = files.audio, !.ci = 1, !.pc = "export"]
                     ELSE [Gone(rec) EXCEPT !.pc = "except"])
    /\ NoFileChange
    /\ UNCHANGED <<sweep, started, uploads>> /\ Others

(* chunk.export(chunk_path): chunk_temp.wav holds this request's chunk *)
S_Export(r) ==
    /\ req[r].pc = "export"
    /\ IF DirExists
       THEN /\ SetFiles([files EXCEPT !.chunk = <<req[r].audio, req[r].ci>>])
            /\ SetReq(r, [req[r] EXCEPT !.pc = "recognize"])
       ELSE /\ NoFileChange
            /\ SetReq(r, [Gone(req[r]) EXCEPT !.pc = "except"])
    /\ UNCHANGED <<sweep, started, uploads>> /\ Others

(* sr.AudioFile(chunk_path), record, recognize_google: the text comes from *)
(* whatever chunk_temp.wav holds now; heard = FALSE stands for a blank     *)
(* text, UnknownValueError and RequestError, which add nothing.            *)
S_Recognize(r, heard) ==
    /\ req[r].pc = "recognize"
    /\ SetReq(r, IF files.chunk = <<>>
                 THEN [Gone(req[r]) EXCEPT !.pc = "except"]
                 ELSE [req[r] EXCEPT
                         !.pc = "cleanup",
                         !.subs = IF heard
                                  THEN Append(@, [src |-> files.chunk[1],
                                                  chunk |-> files.chunk[2]])
                                  ELSE @])
    /\ NoFileChange
    /\ UNCHANGED <<sweep, started, uploads>> /\ Others

(* if chunk_path.exists(): chunk_path.unlink(); next chunk or the write *)
S_Cleanup(r) ==
    /\ req[r].pc = "cleanup"
    /\ SetFiles([files EXCEPT !.chunk = <<>>])
    /\ SetReq(r, [req[r] EXCEPT
                    !.ci = @ + 1,
                    !.pc = IF req[r].ci + 1 > AudioChunks THEN "write" ELSE "export"])
    /\ UNCHANGED <<sweep, started, uploads>> /\ Others

(* with open(srt_path, "w"): one block per cue *)
S_WriteSrt(r) ==
    /\ req[r].pc = "write"
    /\ IF DirExists
       THEN /\ SetFiles([files EXCEPT !.srt = [exists |-> TRUE, blocks |-> req[r].subs]])
            /\ SetReq(r, [Seen(req[r], "wrote_srt") EXCEPT !.pc = "default"])
       ELSE /\ NoFileChange
            /\ SetReq(r, [Gone(req[r]) EXCEPT !.pc = "except"])
    /\ UNCHANGED <<sweep, started, uploads>> /\ Others

NoSpeech == [src |-> 0, chunk |-> 0]
Failure  == [src |-> 0, chunk |-> -1]

(* if not subtitles: rewrite the file with the default block *)
S_Default(r) ==
    /\ req[r].pc = "default"
    /\ IF req[r].subs # <<>>
       THEN /\ NoFileChange
            /\ SetReq(r, [req[r] EXCEPT !.pc = "preview"])
       ELSE IF DirExists
       THEN /\ SetFiles([files EXCEPT !.srt = [exists |-> TRUE, blocks |-> <<NoSpeech>>]])
            /\ SetReq(r, [req[r] EXCEPT !.pc = "preview"])
       ELSE /\ NoFileChange
            /\ SetReq(r, [Gone(req[r]) EXCEPT !.pc = "except"])
    /\ UNCHANGED <<sweep, started, uploads>> /\ Others

(* except Exception: write the error block; if that open raises too, the   *)
(* exception leaves generate_subtitles and the handler                     *)
S_Except(r) ==
    /\ req[r].pc = "except"
    /\ IF DirExists
       THEN /\ SetFiles([files EXCEPT !.srt = [exists |-> TRUE, blocks |-> <<Failure>>]])
            /\ SetReq(r, [Seen(req[r], "wrote_srt") EXCEPT !.pc = "preview"])
       ELSE /\ NoFileChange
            /\ SetReq(r, Finish(Gone(req[r]), "500"))
    /\ UNCHANGED <<sweep, started, uploads>> /\ Others

(* read subtitles.srt back for the preview (a failed read is swallowed)    *)
(* and return ok                                                           *)
S_Preview(r) ==
    /\ req[r].pc = "preview"
    /\ SetReq(r, Finish([Gone(req[r]) EXCEPT
                           !.preview = IF files.srt.exists THEN files.srt.blocks ELSE <<>>],
                        "ok"))
    /\ NoFileChange
    /\ UNCHANGED <<sweep, started, uploads>> /\ Others

(* ---- generate_captioned_video ---- *)

(* get_session_dir; 404 unless both files exist *)
S_VideoStart(r, v, sub) ==
    /\ Free(r)
    /\ started' = started + 1
    /\ Mkdir
    /\ SetReq(r, IF v \in files.videos /\ sub \in Entries(files)
                 THEN Seen([Begin(r, "video", "burn") EXCEPT !.video = v, !.target = sub],
                           "both_found")
                 ELSE Finish(Begin(r, "video", "done"), "404"))
    /\ UNCHANGED <<files, sweep, uploads>> /\ Others

(* def burn_subtitles(video_path, subtitle_path, output_dir) *)
BurnParameters == 3

(* burn_subtitles(video_path, subtitle_path, session_folder, font_size, font_color) *)
BurnArguments == 5

(* The call: Python refuses it unless the arguments fit the parameters;    *)
(* otherwise ffmpeg burns the subtitles into final_captioned_video.mp4.    *)
S_Burn(r) ==
    /\ req[r].pc = "burn"
    /\ IF BurnArguments # BurnParameters
       THEN /\ NoFileChange
            /\ SetReq(r, Finish(Seen(req[r], "TypeError"), "500"))
       ELSE IF DirExists /\ req[r].video \in files.videos /\ req[r].target \in Entries(files)
       THEN /\ SetFiles([files EXCEPT !.final = req[r].video])
            /\ SetReq(r, Finish(Seen(req[r], "burned"), "ok"))
       ELSE /\ NoFileChange
            /\ SetReq(r, Finish(Gone(req[r]), "500"))
    /\ UNCHANGED <<sweep, started, uploads>> /\ Others

(* ---- download_video ---- *)

S_Download(r, name) ==
    /\ Free(r)
    /\ started' = started + 1
    /\ Mkdir
    /\ SetReq(r, Finish(Begin(r, "download", "done"),
                        IF name \in Entries(files) THEN "ok" ELSE "404"))
    /\ UNCHANGED <<files, sweep, uploads>> /\ Others

(* ---- delete_expired_session ---- *)

SESSION_EXPIRY_MINUTES == 30

(* SESSION_EXPIRY_MINUTES pass without an entry of the folder being        *)
(* created or removed.  A request in flight is taken to move faster than   *)
(* that: the folder ages only while no handler is running.                 *)
Age ==
    /\ DirExists /\ ~expired
    /\ \A r \in Slots : req[r].pc = "idle"
    /\ expired' = TRUE
    /\ UNCHANGED <<dirs, files, req, response, sweep, started, uploads>> /\ Others

(* The job runs and finds folder_age > timedelta(minutes=30): rmtree lists *)
(* the folder.                                                             *)
SweepScan ==
    /\ sweep.pc = "idle"
    /\ DirExists /\ expired
    /\ sweep' = [pc |-> "rmtree", listed |-> Entries(files)]
    /\ UNCHANGED <<dirs, files, expired, req, response, started, uploads>> /\ Others

(* rmtree unlinks a listed entry; one that is gone by now raises *)
SweepUnlink(e) ==
    /\ sweep.pc = "rmtree"
    /\ e \in sweep.listed
    /\ IF e \in Entries(files)
       THEN /\ SetFiles(Unlink(files, e))
            /\ sweep' = [sweep EXCEPT !.listed = @ \ {e}]
       ELSE /\ NoFileChange
            /\ sweep' = [pc |-> "failed", listed |-> {}]
    /\ UNCHANGED <<req, response, started, uploads>> /\ Others

(* rmtree's final rmdir: a directory that is not empty raises *)
SweepRmdir ==
    /\ sweep.pc = "rmtree"
    /\ sweep.listed = {}
    /\ IF Entries(files) = {}
       THEN /\ dirs' = dirs \ {S}
            /\ expired' = FALSE
            /\ sweep' = [pc |-> "idle", listed |-> {}]
       ELSE /\ UNCHANGED <<dirs, expired>>
            /\ sweep' = [pc |-> "failed", listed |-> {}]
    /\ UNCHANGED <<files, req, response, started, uploads>> /\ Others

(* The scheduler logs the job's exception and runs it again next time. *)
SweepAgain ==
    /\ sweep.pc = "failed"
    /\ sweep' = [pc |-> "idle", listed |-> {}]
    /\ UNCHANGED <<dirs, files, expired, req, response, started, uploads>> /\ Others

(* One request at a time, and the sweep. *)
Next ==
    \/ \E r \in {1} : S_UploadRejected(r)
    \/ \E r \in {1} : S_UploadStart(r)
    \/ \E r \in {1} : S_UploadSave(r)
    \/ \E r \in {1}, v \in VideoNames : S_CaptionsStart(r, v)
    \/ \E r \in {1} : S_Extract(r)
    \/ \E r \in {1} : S_ExtractFails(r)
    \/ \E r \in {1} : S_LoadAudio(r)
    \/ \E r \in {1} : S_Export(r)
    \/ \E r \in {1}, heard \in BOOLEAN : S_Recognize(r, heard)
    \/ \E r \in {1} : S_Cleanup(r)
    \/ \E r \in {1} : S_WriteSrt(r)
    \/ \E r \in {1} : S_Default(r)
    \/ \E r \in {1} : S_Except(r)
    \/ \E r \in {1} : S_Preview(r)
    \/ \E r \in {1}, v \in VideoNames, sub \in SubtitleNames : S_VideoStart(r, v, sub)
    \/ \E r \in {1} : S_Burn(r)
    \/ \E r \in {1}, name \in DownloadNames : S_Download(r, name)
    \/ Age
    \/ SweepScan
    \/ \E e \in sweep.listed : SweepUnlink(e)
    \/ SweepRmdir
    \/ SweepAgain

Spec == Init /\ [][Next]_vars

(* Two requests in flight, and the sweep. *)
NextPair ==
    \/ \E r \in Slots : S_UploadRejected(r)
    \/ \E r \in Slots : S_UploadStart(r)
    \/ \E r \in Slots : S_UploadSave(r)
    \/ \E r \in Slots, v \in VideoNames : S_CaptionsStart(r, v)
    \/ \E r \in Slots : S_Extract(r)
    \/ \E r \in Slots : S_ExtractFails(r)
    \/ \E r \in Slots : S_LoadAudio(r)
    \/ \E r \in Slots : S_Export(r)
    \/ \E r \in Slots, heard \in BOOLEAN : S_Recognize(r, heard)
    \/ \E r \in Slots : S_Cleanup(r)
    \/ \E r \in Slots : S_WriteSrt(r)
    \/ \E r \in Slots : S_Default(r)
    \/ \E r \in Slots : S_Except(r)
    \/ \E r \in Slots : S_Preview(r)
    \/ \E r \in Slots, v \in VideoNames, sub \in SubtitleNames : S_VideoStart(r, v, sub)
    \/ \E r \in Slots : S_Burn(r)
    \/ \E r \in Slots, name \in DownloadNames : S_Download(r, name)
    \/ Age
    \/ SweepScan
    \/ \E e \in sweep.listed : SweepUnlink(e)
    \/ SweepRmdir
    \/ SweepAgain

SpecPair == Init /\ [][NextPair]_vars

----------------------------------------------------------------------------
(* Properties of the handlers and the sweep                                *)

(* Every request that has a record: those in flight and the last answered. *)
Records == { req[r] : r \in Slots } \cup {response}

(* C4: a generate-captions request whose audio extraction fails ends at    *)
(* once in a failure response, without reaching generate_subtitles and     *)
(* without writing subtitles.srt.                                          *)
C4_ExtractFailureWritesNothing ==
    \A rec \in Records :
        "extract_failed" \in rec.trail =>
            /\ rec.pc = "done"
            /\ rec.outcome = "500"
            /\ "generate_subtitles" \notin rec.trail
            /\ "wrote_srt" \notin rec.trail

(* ffmpeg failed on a video that is there, in a directory that is there. *)
C4_Witness ==
    /\ response.kind = "captions"
    /\ "extract_failed" \in response.trail
    /\ "dir_gone" \notin response.trail
    /\ response.video \in files.videos
    /\ ~files.srt.exists

(* C5: a generate-captioned-video request that finds both the video and    *)
(* the subtitle file (and whose directory stays) runs the burn step and    *)
(* answers ok with the output file.                                        *)
C5_BurnCompletes ==
    ( /\ response.kind = "video"
      /\ "both_found" \in response.trail
      /\ "dir_gone" \notin response.trail )
        => (response.outcome = "ok" /\ "burned" \in response.trail)

(* C9: a request whose session directory disappeared under it answers      *)
(* not-found, and the sweep never fails on a directory a request is        *)
(* writing into.                                                           *)
C9_RaceIsNotFound ==
    /\ "dir_gone" \in response.trail => response.outcome = "404"
    /\ sweep.pc # "failed"

(* C10: a generate-captions response's preview, and the stored document,   *)
(* hold only cues recognized from that request's own video (or a           *)
(* placeholder), even with another generate-captions request in flight.    *)
FromVideo(blocks, v) == \A k \in DOMAIN blocks : blocks[k].src \in {0, v}

C10_PreviewFromOwnVideo ==
    ( /\ response.kind = "captions"
      /\ response.outcome = "ok"
      /\ "dir_gone" \notin response.trail
      /\ sweep.pc = "idle" /\ ~expired )
        => /\ FromVideo(response.preview, response.video)
           /\ \E v \in VideoNames : FromVideo(files.srt.blocks, v)

====
